---- MODULE Spec2Model ----
(***************************************************************************)
(* Model of ezdxf's linear dimension renderer (src/ezdxf/render/dimension.py)*)
(* and of its dispatcher, of format_text as a function of its arguments,   *)
(* and of the entity database (src/ezdxf/database.py).                     *)
(*                                                                         *)
(* Numbers.  Python floats are modelled as fixed-point integers: a length  *)
(* or a coordinate is an integer count of 1/100 drawing units (Units(1) is *)
(* one drawing unit).  Angles are integer degrees, multiples of 90, so     *)
(* every direction is an exact integer unit vector and every intersection  *)
(* an exact integer point.  A value handed to format_text is an integer    *)
(* count of 1/100000 (Micro(1) is one unit).                               *)
(* Strings are sequences of one-character strings.  Python's None is NoPt  *)
(* for a point or a text box, and -1 for an optional number.               *)
(***************************************************************************)
EXTENDS Integers, Sequences, FiniteSets, TLC

VARIABLES
    dimension,   \* the DIMENSION entity (dimension.dxf.* and dim_type)
    style,       \* the resolved DimStyleOverride (dim_style.get values)
    ucs,         \* the UCS handed to dispatch
    drawing,     \* the drawing: DXF version, user blocks, anonymous blocks
    eng,         \* the LinearDimension object built by linear()
    pc,          \* position inside DimensionRenderer.dispatch
    outcome,     \* how the last dispatch call ended
    calls,       \* number of dispatch calls started
    fmt,         \* a call of format_text: its arguments and its result
    database,    \* EntityDB._database: handle -> tags
    handles,     \* EntityDB.handles: the next value of the HandleGenerator
    call,        \* the EntityDB method that runs, its locals and its result
    ops          \* number of EntityDB methods called

\* the variables of the dimension renderer
dimvars == <<dimension, style, ucs, drawing, eng, pc, outcome, calls>>

\* the variables of a format_text call
fmtvars == <<fmt>>

\* the variables of the entity database
dbvars == <<database, handles, call, ops>>

vars == <<dimension, style, ucs, drawing, eng, pc, outcome, calls, fmt, database,
          handles, call, ops>>

----------------------------------------------------------------------------
(* Bounds of the model *)

MaxDimType == 7
MaxDispatch == 2

----------------------------------------------------------------------------
(* Vector arithmetic (ezdxf.algebra.Vector), points are <<x, y, z>> *)

NoPt == <<>>

Units(n) == 100 * n

Abs(n) == IF n < 0 THEN 0 - n ELSE n

Sgn(n) == IF n < 0 THEN 0 - 1 ELSE IF n > 0 THEN 1 ELSE 0

VAdd(a, b) == <<a[1] + b[1], a[2] + b[2], a[3] + b[3]>>

VSub(a, b) == <<a[1] - b[1], a[2] - b[2], a[3] - b[3]>>

VScale(a, k) == <<a[1] * k, a[2] * k, a[3] * k>>

VDot(a, b) == a[1] * b[1] + a[2] * b[2] + a[3] * b[3]

\* z component of the cross product of the xy projections
Cross2(a, b) == a[1] * b[2] - a[2] * b[1]

\* floor division for negative numerators as well (exact where it is used)
Div(n, d) == IF n >= 0 THEN n \div d ELSE 0 - ((0 - n) \div d)

Max(a, b) == IF a >= b THEN a ELSE b

\* Vector.magnitude: the integer root of the squared length, searched
\* between the largest component and the sum of the components
Magnitude(v) ==
    LET x == Abs(v[1])
        y == Abs(v[2])
        z == Abs(v[3])
        n == x * x + y * y + z * z
    IN  CHOOSE r \in Max(x, Max(y, z))..(x + y + z) : r * r <= n /\ n < (r + 1) * (r + 1)

IsZero(v) == v[1] = 0 /\ v[2] = 0 /\ v[3] = 0

\* Vector.normalize(length): self * (length / magnitude); the caller must
\* not pass the zero vector (Python raises ZeroDivisionError there)
Normalize(v, length) ==
    LET m == Magnitude(v)
    IN  <<Div(v[1] * length, m), Div(v[2] * length, m), Div(v[3] * length, m)>>

\* Vector.orthogonal(): rotated by +90 degrees in the xy plane
Orthogonal(v) == <<0 - v[2], v[1], 0>>

\* Vector.lerp(other, 0.5)
Lerp(a, b) == <<Div(a[1] + b[1], 2), Div(a[2] + b[2], 2), Div(a[3] + b[3], 2)>>

\* unit direction of an angle in degrees (multiples of 90)
Dir(deg) ==
    LET a == deg % 360
    IN  IF a = 0 THEN <<1, 0, 0>>
        ELSE IF a = 90 THEN <<0, 1, 0>>
        ELSE IF a = 180 THEN <<0 - 1, 0, 0>>
        ELSE <<0, 0 - 1, 0>>

\* Vector.from_deg_angle(angle, length)
FromDegAngle(deg, length) == VScale(Dir(deg), length)

\* Vector.__lt__: lexicographic order used by sorted()
VLess(a, b) ==
    \/ a[1] < b[1]
    \/ a[1] = b[1] /\ a[2] < b[2]
    \/ a[1] = b[1] /\ a[2] = b[2] /\ a[3] < b[3]

----------------------------------------------------------------------------
(* ConstructionRay and ConstructionLine (ezdxf.algebra) *)

\* ConstructionRay(point, angle): a point and a direction in the xy plane
Ray(p, deg) == [p |-> <<p[1], p[2], 0>>, d |-> Dir(deg)]

\* ConstructionRay.intersect; the rays of a dimension line and of an
\* extension line are at right angles, never parallel
RayIntersect(r1, r2) ==
    LET den == Cross2(r1.d, r2.d)
        t == Cross2(VSub(r2.p, r1.p), r2.d)
    IN  <<r1.p[1] + Div(r1.d[1] * t, den), r1.p[2] + Div(r1.d[2] * t, den), 0>>

\* ConstructionLine.intersect: the point where two finite lines cross, inside
\* both lines' extents (end points included); NoPt when there is none or the
\* lines are parallel
LineIntersect(a1, a2, b1, b2) ==
    LET da == VSub(a2, a1)
        db == VSub(b2, b1)
        den == Cross2(da, db)
        tn == Cross2(VSub(b1, a1), db)
        un == Cross2(VSub(b1, a1), da)
        inside(n) == IF den > 0 THEN 0 <= n /\ n <= den ELSE den <= n /\ n <= 0
    IN  IF den = 0 THEN NoPt
        ELSE IF inside(tn) /\ inside(un)
             THEN <<a1[1] + Div(da[1] * tn, den), a1[2] + Div(da[2] * tn, den), 0>>
             ELSE NoPt

----------------------------------------------------------------------------
(* UCS (ezdxf.algebra.UCS, PassTroughUCS) *)

PassTroughUCS == [origin |-> <<0, 0, 0>>, ux |-> <<1, 0, 0>>, uy |-> <<0, 1, 0>>,
                  uz |-> <<0, 0, 1>>]

\* UCS.to_wcs
ToWcs(u, p) ==
    VAdd(u.origin, VAdd(VScale(u.ux, p[1]), VAdd(VScale(u.uy, p[2]), VScale(u.uz, p[3]))))

Cross3(a, b) == <<a[2] * b[3] - a[3] * b[2], a[3] * b[1] - a[1] * b[3],
                  a[1] * b[2] - a[2] * b[1]>>

\* the arbitrary axis algorithm of OCS(uz), for a unit vector uz on an axis
OcsX(uz) == IF uz[1] = 0 /\ uz[2] = 0 THEN Cross3(<<0, 1, 0>>, uz)
            ELSE Cross3(<<0, 0, 1>>, uz)

\* UCS.to_ocs: to WCS, then into the OCS established by uz
ToOcs(u, p) ==
    LET w == ToWcs(u, p)
        ax == OcsX(u.uz)
        ay == Cross3(u.uz, ax)
    IN  <<VDot(w, ax), VDot(w, ay), VDot(w, u.uz)>>

----------------------------------------------------------------------------
(* Text formatting: format_text and its helpers *)

Micro(n) == 100000 * n

Digits == <<"0", "1", "2", "3", "4", "5", "6", "7", "8", "9">>

RECURSIVE NatToStr(_)
NatToStr(n) == IF n < 10 THEN <<Digits[n + 1]>>
               ELSE NatToStr(n \div 10) \o <<Digits[(n % 10) + 1]>>

RECURSIVE Pow10(_)
Pow10(k) == IF k = 0 THEN 1 ELSE 10 * Pow10(k - 1)

\* n as exactly k digits, zero padded on the left
RECURSIVE PadNat(_, _)
PadNat(n, k) == IF k = 0 THEN <<>>
                ELSE PadNat(n \div 10, k - 1) \o <<Digits[(n % 10) + 1]>>

\* round(): n / q rounded to the nearest integer, ties to even
RoundHalfEven(n, q) ==
    LET f == n \div q
        r == n % q
    IN  IF 2 * r > q \/ (2 * r = q /\ f % 2 = 1) THEN f + 1 ELSE f

\* xround(value, rounding): round(value / rounding) * rounding; rounding 0
\* rounds to an integer
xround(value, rounding) ==
    LET q == IF rounding = 0 THEN Micro(1) ELSE rounding
        a == RoundHalfEven(Abs(value), q) * q
    IN  IF value < 0 THEN 0 - a ELSE a

\* "{:.<dec>f}".format(value) for a value in 1/100000, dec in 0..6
FormatFixed(value, dec) ==
    LET a == Abs(value)
        n == IF dec >= 5 THEN a * Pow10(dec - 5) ELSE RoundHalfEven(a, Pow10(5 - dec))
        int == n \div Pow10(dec)
        frac == n % Pow10(dec)
        sign == IF value < 0 THEN <<"-">> ELSE <<>>
    IN  sign \o NatToStr(int) \o (IF dec = 0 THEN <<>> ELSE <<".">> \o PadNat(frac, dec))

RECURSIVE LStrip0(_)
LStrip0(s) == IF s # <<>> /\ Head(s) = "0" THEN LStrip0(Tail(s)) ELSE s

RECURSIVE RStrip0(_)
RStrip0(s) == IF s # <<>> /\ s[Len(s)] = "0" THEN RStrip0(SubSeq(s, 1, Len(s) - 1)) ELSE s

IsZeroText(s) == \A i \in 1..Len(s) : s[i] \in {"0", ".", "-", "+"}

\* ezdxf.tools.suppress_zeros(s, leading, trailing)
suppress_zeros(s, leading, trailing) ==
    IF ~leading /\ ~trailing THEN s
    ELSE IF IsZeroText(s) THEN <<"0">>
    ELSE LET signed == Head(s) \in {"-", "+"}
             sign == IF signed THEN <<Head(s)>> ELSE <<>>
             s0 == IF signed THEN Tail(s) ELSE s
             s1 == IF leading THEN LStrip0(s0) ELSE s0
             s2 == IF trailing THEN RStrip0(s1) ELSE s1
             s3 == IF s2 # <<>> /\ s2[Len(s2)] \in {".", ","}
                   THEN SubSeq(s2, 1, Len(s2) - 1) ELSE s2
         IN  sign \o s3

\* str.replace('.', dimdsep)
RECURSIVE ReplaceDot(_, _)
ReplaceDot(s, sep) ==
    IF s = <<>> THEN <<>>
    ELSE (IF Head(s) = "." THEN sep ELSE <<Head(s)>>) \o ReplaceDot(Tail(s), sep)

\* position of the first "<>" in s, 0 when there is none
FindPlaceholder(s) ==
    LET hits == {i \in 1..(Len(s) - 1) : s[i] = "<" /\ s[i + 1] = ">"}
    IN  IF hits = {} THEN 0 ELSE CHOOSE i \in hits : \A j \in hits : i <= j

\* dimpost.replace('<>', '{}', 1), for a dimpost that holds "<>"
ReplacePlaceholder(dimpost) ==
    LET k == FindPlaceholder(dimpost)
    IN  SubSeq(dimpost, 1, k - 1) \o <<"{", "}">> \o SubSeq(dimpost, k + 2, Len(dimpost))

\* the result of str.format: the exception raised or "", and the text
Formatted(raises, text) == [raises |-> raises, text |-> text]

\* a literal piece of the format string followed by the rest's result
Literal(s, rest) == IF rest.raises # "" THEN rest ELSE Formatted("", s \o rest.text)

\* fstr.format(arg), fstr the format string, from position i on, after
\* used automatic fields "{}"; "{{" and "}}" are literal braces, a single "}" and a "{" that is not
\* closed are a ValueError, a second "{}" has no argument (IndexError) and
\* a named field has no keyword argument (KeyError); the field names hold
\* no digit, ".", "[", "!" or ":"
RECURSIVE StrFormatFrom(_, _, _, _)
StrFormatFrom(fstr, i, arg, used) ==
    IF i > Len(fstr) THEN Formatted("", <<>>)
    ELSE IF fstr[i] = "{"
    THEN IF i < Len(fstr) /\ fstr[i + 1] = "{"
         THEN Literal(<<"{">>, StrFormatFrom(fstr, i + 2, arg, used))
         ELSE LET closes == {j \in (i + 1)..Len(fstr) : fstr[j] = "}"}
                  close == IF closes = {} THEN 0
                           ELSE CHOOSE j \in closes : \A k \in closes : j <= k
              IN  IF close = 0 \/ \E j \in (i + 1)..(close - 1) : fstr[j] = "{"
                  THEN Formatted("ValueError", <<>>)
                  ELSE IF close > i + 1 THEN Formatted("KeyError", <<>>)
                  ELSE IF used > 0 THEN Formatted("IndexError", <<>>)
                  ELSE Literal(arg, StrFormatFrom(fstr, close + 1, arg, used + 1))
    ELSE IF fstr[i] = "}"
    THEN IF i < Len(fstr) /\ fstr[i + 1] = "}"
         THEN Literal(<<"}">>, StrFormatFrom(fstr, i + 2, arg, used))
         ELSE Formatted("ValueError", <<>>)
    ELSE Literal(<<fstr[i]>>, StrFormatFrom(fstr, i + 1, arg, used))

\* fmt.format(text) of format_text
StrFormat(fstr, arg) == StrFormatFrom(fstr, 1, arg, 0)

\* does format_text raise DXFValueError('Invalid dimpost string')
format_text_raises(dimpost) == dimpost # <<>> /\ FindPlaceholder(dimpost) = 0

\* the exception format_text raises for a dimpost, "" when it returns
format_text_error(dimpost) ==
    IF dimpost = <<>> THEN ""
    ELSE IF format_text_raises(dimpost) THEN "DXFValueError"
    ELSE StrFormat(ReplacePlaceholder(dimpost), <<>>).raises

\* format_text(value, dimrnd, dimdec, dimzin, dimdsep, dimpost) where it
\* returns, raisedec left at its default False as in
\* DimensionBase.format_text; dimrnd and dimdec are -1 for None
format_text(value, dimrnd, dimdec, dimzin, dimdsep, dimpost) ==
    LET v == IF dimrnd # -1 THEN xround(value, dimrnd) ELSE value
        zin == IF dimdec = -1 THEN (IF (dimzin \div 8) % 2 = 1 THEN dimzin ELSE dimzin + 8)
               ELSE dimzin
        t0 == IF dimdec = -1 THEN FormatFixed(v, 6) ELSE FormatFixed(v, dimdec)
        leading == (zin \div 4) % 2 = 1
        pending == (zin \div 8) % 2 = 1
        t1 == suppress_zeros(t0, leading, pending)
        t2 == IF dimdsep # <<".">> THEN ReplaceDot(t1, dimdsep) ELSE t1
    IN  IF dimpost = <<>> THEN t2
        ELSE StrFormat(ReplacePlaceholder(dimpost), t2).text

----------------------------------------------------------------------------
(* The inputs: drawings, UCSs, styles and DIMENSION entities *)

\* ezdxf.render.arrows.ARROWS: "" is the closed filled arrow
ARROWS == {"", "OBLIQUE"}

\* ARROWS.ORIGIN_ZERO: arrows whose connection point is their insert point
ORIGIN_ZERO == {"OBLIQUE"}

\* ARROWS.has_extension_line(name)
has_extension_line(name) == name \in {"OBLIQUE"}

NoName == "None"

Drawings ==
    [dxfversion : {1009, 1015}, text_style_height : {0}, user_blocks : {{"USERBLK"}},
     blocks : {<<>>}]

UCSs ==
    { PassTroughUCS,
      [origin |-> <<Units(1), Units(2), 0>>, ux |-> <<1, 0, 0>>, uy |-> <<0, 1, 0>>,
       uz |-> <<0, 0, 1>>],
      [origin |-> <<0, 0, 0>>, ux |-> <<1, 0, 0>>, uy |-> <<0, 0, 1>>,
       uz |-> <<0, 0 - 1, 0>>] }

BaseStyle ==
    [ dimlfac |-> 1, dimtxt |-> Units(1), dimgap |-> Units(1), dimjust |-> 0,
      dimtad |-> 0, dimtmove |-> 0, dimtix |-> 0, dimtsz |-> 0, dimasz |-> Units(1),
      arrow1 |-> "", arrow2 |-> "", dimdle |-> 0, dimsd1 |-> 0, dimsd2 |-> 0,
      dimse1 |-> 0, dimse2 |-> 0, dimexe |-> 0, dimexo |-> 0, dimexfix |-> 0,
      dimexlen |-> 0 - 1, dimrnd |-> 0 - 1, dimdec |-> 0 - 1, dimzin |-> 0,
      dimdsep |-> <<".">>, dimpost |-> <<"<", ">">> ]

\* placement: gap, arrow size, force text inside, measurement factor
StylesPlacement ==
    { [BaseStyle EXCEPT !.dimgap = g, !.dimasz = a, !.dimtix = f, !.dimlfac = k] :
        g \in {0, Units(1)}, a \in {Units(1), Units(3)}, f \in {0, 1}, k \in {1, 2} }

\* text location: horizontal and vertical alignment, movement rule
StylesText ==
    { [BaseStyle EXCEPT !.dimjust = j, !.dimtad = v, !.dimtmove = m] :
        j \in 0..4, v \in {0, 1, 4}, m \in {0, 1, 2} }

\* text formatting
StylesFormat ==
    { [BaseStyle EXCEPT !.dimdec = d, !.dimdsep = sep, !.dimpost = post] :
        d \in {0 - 1, 2}, sep \in {<<".">>, <<",">>},
        post \in {<<"<", ">">>, <<"<", ">", "m", "m">>, <<"m", "m">>, <<>>} }

\* suppression of lines, dimension line extension
StylesLines ==
    { [BaseStyle EXCEPT !.dimsd1 = a, !.dimsd2 = b, !.dimse1 = c, !.dimse2 = d,
                        !.dimdle = e] :
        a \in {0, 1}, b \in {0, 1}, c \in {0, 1}, d \in {0, 1}, e \in {0, Units(1)} }

\* arrows: ticks, standard arrows, user blocks
StylesArrows ==
    { [BaseStyle EXCEPT !.dimtsz = t, !.arrow1 = n[1], !.arrow2 = n[2], !.dimasz = a] :
        t \in {0, 50},
        n \in {<<"", "">>, <<"OBLIQUE", "OBLIQUE">>, <<"USERBLK", "">>, <<"", "NOBLK">>,
                <<"NOBLK", "">>},
        a \in {Units(1), Units(6)} }

\* extension lines: extension, offset, fixed length mode and fixed length
StylesExt ==
    { [BaseStyle EXCEPT !.dimexfix = f, !.dimexlen = l, !.dimexe = x, !.dimexo = o] :
        f \in {0, 1}, l \in {0 - 1, 0, Units(1), Units(2)}, x \in {0, Units(2)},
        o \in {0, Units(1)} }

Styles == StylesPlacement \cup StylesText \cup StylesFormat \cup StylesLines
          \cup StylesArrows \cup StylesExt

TextBlank == <<" ">>

TextPlaceholder == <<"<", ">">>

Texts == {TextBlank, <<>>, TextPlaceholder, <<"A", "B">>,
          <<"A", "B", "C", "D", "E", "F", "G", "H">>}

\* linear dimensions: every geometry, type code 0
LinearDimensions ==
    [ dim_type : {0},
      defpoint : {<<Units(1), Units(2), 0>>, <<0, 0, 0>>},
      defpoint2 : {<<0, 0, 0>>},
      defpoint3 : {<<Units(10), 0, 0>>, <<Units(4), Units(3), 0>>, <<0, Units(3), 0>>},
      text_midpoint : {<<Units(5), Units(4), 0>>},
      angle : {0, 90},
      text : Texts,
      text_rotation : {0 - 1},
      user_location_override : BOOLEAN,
      geometry : {0},
      extrusion : {NoPt} ]

\* every type code, one geometry
TypedDimensions ==
    [ dim_type : 0..MaxDimType,
      defpoint : {<<Units(1), Units(2), 0>>},
      defpoint2 : {<<0, 0, 0>>},
      defpoint3 : {<<Units(10), 0, 0>>},
      text_midpoint : {<<Units(5), Units(4), 0>>},
      angle : {0},
      text : {<<>>},
      text_rotation : {0 - 1},
      user_location_override : {FALSE},
      geometry : {0},
      extrusion : {NoPt} ]

Dimensions == LinearDimensions \cup TypedDimensions

NotBuilt == [built |-> FALSE]

\* no call of format_text, no method of EntityDB runs
NoCall == [pc |-> "none"]

BaseDrawing ==
    [dxfversion |-> 1015, text_style_height |-> 0, user_blocks |-> {"USERBLK"},
     blocks |-> <<>>]

\* the styles rendered under every UCS and DXF version
StylesUcs ==
    { BaseStyle, [BaseStyle EXCEPT !.dimtad = 1], [BaseStyle EXCEPT !.dimtmove = 1],
      [BaseStyle EXCEPT !.arrow1 = "USERBLK"], [BaseStyle EXCEPT !.arrow2 = "NOBLK"] }

\* every linear dimension under every style in the WCS; every linear
\* dimension under every UCS and DXF version; every type code
Init ==
    /\ \/ /\ dimension \in LinearDimensions
          /\ style \in Styles
          /\ ucs = PassTroughUCS
          /\ drawing = BaseDrawing
       \/ /\ dimension \in LinearDimensions
          /\ style \in StylesUcs
          /\ ucs \in UCSs
          /\ drawing \in Drawings
       \/ /\ dimension \in TypedDimensions
          /\ style = BaseStyle
          /\ ucs \in UCSs
          /\ drawing \in Drawings
    /\ eng = NotBuilt
    /\ pc = "idle"
    /\ outcome = "none"
    /\ calls = 0
    /\ fmt = NoCall
    /\ database = <<>> /\ handles = 0 /\ call = NoCall /\ ops = 0

----------------------------------------------------------------------------
(* DimensionRenderer.dispatch *)

\* the exception classes of Python and of ezdxf.lldxf.const
ExceptionClasses == {"NotImplementedError", "DXFValueError", "DXFUndefinedBlockError",
                     "ZeroDivisionError", "TypeError", "ValueError", "KeyError",
                     "IndexError"}

\* Python's raise statement: an operand that is no exception class or
\* instance (the constant NotImplemented) raises TypeError instead
Raise(obj) == IF obj \in ExceptionClasses THEN obj ELSE "TypeError"

\* what the stubs angular, diameter, radius, angular3p and ordinate raise
StubRaises == "NotImplemented"

\* blocks.new_anonymous_block: a new empty block, named by its position
NewAnonymousBlock(blocks) == Append(blocks, <<>>)

\* the block being filled: the one dimension.dxf.geometry names
Block == drawing.blocks[dimension.geometry]

\* dispatch that does not record the block's name on the entity
dispatch_unrecorded ==
    /\ pc = "idle"
    /\ calls < MaxDispatch
    /\ drawing' = [drawing EXCEPT !.blocks = NewAnonymousBlock(drawing.blocks)]
    /\ dimension' = dimension
    /\ calls' = calls + 1
    /\ eng' = NotBuilt
    /\ outcome' = "running"
    /\ pc' = "dim_type"
    /\ UNCHANGED <<style, ucs, fmtvars, dbvars>>

\* dispatch, up to the reading of dim_type
dispatch ==
    /\ pc = "idle"
    /\ calls < MaxDispatch
    /\ drawing' = [drawing EXCEPT !.blocks = NewAnonymousBlock(drawing.blocks)]
    /\ dimension' = [dimension EXCEPT !.geometry = Len(drawing'.blocks)]
    /\ calls' = calls + 1
    /\ eng' = NotBuilt
    /\ outcome' = "running"
    /\ pc' = "dim_type"
    /\ UNCHANGED <<style, ucs, fmtvars, dbvars>>

\* the chain with the last elif as ">= 6" and no else branch left
Route_open_ended(dim_type) ==
    IF dim_type \in {0, 1} THEN "linear"
    ELSE IF dim_type = 2 THEN "angular"
    ELSE IF dim_type = 3 THEN "diameter"
    ELSE IF dim_type = 4 THEN "radius"
    ELSE IF dim_type = 5 THEN "angular3p"
    ELSE "ordinate"

\* which method the if/elif chain of dispatch calls
Route(dim_type) ==
    IF dim_type \in {0, 1} THEN "linear"
    ELSE IF dim_type = 2 THEN "angular"
    ELSE IF dim_type = 3 THEN "diameter"
    ELSE IF dim_type = 4 THEN "radius"
    ELSE IF dim_type = 5 THEN "angular3p"
    ELSE IF dim_type = 6 THEN "ordinate"
    ELSE "unknown"

\* the if/elif chain of dispatch and the stubs it calls
dispatch_dim_type ==
    /\ pc = "dim_type"
    /\ LET route == Route(dimension.dim_type)
       IN  IF route = "linear"
           THEN pc' = "linear" /\ outcome' = outcome
           ELSE IF route = "unknown"
           THEN pc' = "idle" /\ outcome' = Raise("DXFValueError")
           ELSE pc' = "idle" /\ outcome' = Raise(StubRaises)
    /\ UNCHANGED <<dimension, style, ucs, drawing, eng, calls, fmtvars, dbvars>>

----------------------------------------------------------------------------
(* DimensionBase and LinearDimension: construction *)

\* DimensionBase.char_height: the text style's fixed height, else dimtxt
char_height(dwg, st) ==
    IF dwg.text_style_height = 0 THEN st.dimtxt ELSE dwg.text_style_height

\* DimensionBase.text_width, with the text style's width factor 1
text_width(text, text_height) == Len(text) * text_height

\* a length in 1/100 units as a format_text value in 1/100000
ToMicro(length) == length * 1000

\* DimensionBase.format_text: the style's options handed to format_text
style_format_text(st, value) ==
    format_text(value, st.dimrnd, st.dimdec, st.dimzin, st.dimdsep, st.dimpost)

\* text_override without the test for the blank that suppresses the text
text_override_no_blank(text, st, value) ==
    IF text = <<>> \/ text = <<"<", ">">>
    THEN IF format_text_error(st.dimpost) # "" THEN [raises |-> TRUE, text |-> <<>>]
         ELSE [raises |-> FALSE, text |-> style_format_text(st, value)]
    ELSE [raises |-> FALSE, text |-> text]

\* DimensionBase.text_override(measurement): the text and whether
\* format_text raised DXFValueError
text_override(text, st, value) ==
    IF text = <<" ">> THEN [raises |-> FALSE, text |-> <<>>]
    ELSE IF text = <<>> \/ text = <<"<", ">">>
    THEN IF format_text_error(st.dimpost) # "" THEN [raises |-> TRUE, text |-> <<>>]
         ELSE [raises |-> FALSE, text |-> style_format_text(st, value)]
    ELSE [raises |-> FALSE, text |-> text]

\* LinearDimension.vertical_factor
vertical_factor(text_valign) ==
    IF text_valign = 0 THEN 0 ELSE IF text_valign = 4 THEN 0 - 1 ELSE 1

\* LinearDimension.text_vertical_distance
text_vertical_distance(text_height, text_gap, text_valign) ==
    (Div(text_height, 2) + text_gap) * vertical_factor(text_valign)

\* get_text_location returning the location without the lift
LiftText_none(text_location, start, end, vdist) == text_location

\* the lift of get_text_location: text_location + ortho
LiftText(text_location, start, end, vdist) ==
    VAdd(text_location, Normalize(Orthogonal(VSub(end, start)), vdist))

\* LinearDimension.get_text_location(text_width, text_outside).  raises: a
\* zero vector was normalized (ZeroDivisionError); wrote: text_midpoint of
\* the entity was set, to midpoint; location: the value returned
get_text_location(e, d, width) ==
    LET start == e.dim_line_start
        end == e.dim_line_end
        zero == IsZero(VSub(end, start))
        tvd == text_vertical_distance(e.text_height, e.text_gap, e.text_valign)
        offset == e.text_gap + e.arrow_size + Div(width, 2)
        dist == e.text_gap + Div(e.text_height, 2)
        default ==
            IF e.text_halign = 1 THEN VAdd(start, Normalize(VSub(end, start), offset))
            ELSE IF e.text_halign = 2 THEN VAdd(end, Normalize(VSub(start, end), offset))
            ELSE IF e.text_halign = 3
            THEN VAdd(start, VScale(Normalize(VSub(start, end), dist),
                                    vertical_factor(e.text_valign)))
            ELSE IF e.text_halign = 4
            THEN VAdd(end, VScale(Normalize(VSub(start, end), dist),
                                  vertical_factor(e.text_valign)))
            ELSE Lerp(start, end)
        vdist == IF e.text_halign \in {0, 1, 2} THEN tvd ELSE offset
    IN  IF e.user_location_override
        THEN IF e.text_movement_rule = 0
             THEN IF zero
                  THEN [raises |-> TRUE, wrote |-> FALSE, midpoint |-> NoPt,
                        location |-> NoPt]
                  ELSE [raises |-> FALSE, wrote |-> FALSE, midpoint |-> NoPt,
                        location |-> LiftText(d.text_midpoint, start, end, tvd)]
             ELSE [raises |-> FALSE, wrote |-> FALSE, midpoint |-> NoPt,
                   location |-> d.text_midpoint]
        ELSE IF zero
             THEN IF e.text_halign \in 1..4
                  THEN [raises |-> TRUE, wrote |-> FALSE, midpoint |-> NoPt,
                        location |-> NoPt]
                  ELSE [raises |-> TRUE, wrote |-> TRUE, midpoint |-> Lerp(start, end),
                        location |-> NoPt]
             ELSE [raises |-> FALSE, wrote |-> TRUE, midpoint |-> default,
                   location |-> LiftText(default, start, end, vdist)]

\* TextBox.__init__: the four corners, lower left, lower right, upper right,
\* upper left
TextBox(center, width, height, angle, gap) ==
    LET w2 == FromDegAngle(angle, Div(width, 2) + gap)
        h2 == FromDegAngle(angle + 90, Div(height, 2) + gap)
    IN  << VSub(VSub(center, w2), h2), VSub(VAdd(center, w2), h2),
           VAdd(VAdd(center, w2), h2), VAdd(VSub(center, w2), h2) >>

\* the gap handed to TextBox: text_gap * .99
ShrunkGap(text_gap) == Div(text_gap * 99, 100)

\* the dimension line ray always through defpoint
DimLineAnchor_defpoint(d, st) == d.defpoint

\* which ray carries the dimension line: through text_midpoint when the
\* user moved the text and the dimension line moves with it
DimLineAnchor(d, st) ==
    IF d.user_location_override /\ st.dimtmove = 0 THEN d.text_midpoint ELSE d.defpoint

\* the measurement taken along the x axis only
Measurement_x(start, end) == VSub(end, start)[1]

\* LinearDimension.measurement
Measurement(start, end) == Magnitude(VSub(end, start))

\* the value handed to text_override
MeasuredValue(measurement, factor) == measurement * factor

\* text_outside without regard to force_text_inside
TextOutside_unforced(force_text_inside, required_text_space, measurement) ==
    required_text_space > measurement

\* text_outside, for a text that is not empty
TextOutside(force_text_inside, required_text_space, measurement) ==
    IF ~force_text_inside THEN required_text_space > measurement ELSE FALSE

\* arrows_outside
ArrowsOutside(required_arrows_space, measurement) == required_arrows_space > measurement

\* DimensionBase.__init__ and LinearDimension.__init__ up to the text: the
\* attributes read from the entity, the style and the UCS
EngineGeometry(d, st, u, dwg) ==
    LET angle == d.angle
        ext1_ray == Ray(d.defpoint2, angle + 90)
        ext2_ray == Ray(d.defpoint3, angle + 90)
        dim_line_ray == Ray(DimLineAnchor(d, st), angle)
        start == RayIntersect(dim_line_ray, ext1_ray)
        end == RayIntersect(dim_line_ray, ext2_ray)
        ticks == st.dimtsz > 0
    IN  [ built |-> TRUE,
          supports_dxf_r2000 |-> dwg.dxfversion >= 1015,
          requires_extrusion |-> u.uz # <<0, 0, 1>>,
          user_location_override |-> d.user_location_override,
          dim_measurement_factor |-> st.dimlfac,
          text_height |-> char_height(dwg, st),
          text_gap |-> st.dimgap,
          text_halign |-> st.dimjust,
          text_valign |-> st.dimtad,
          text_movement_rule |-> st.dimtmove,
          force_text_inside |-> st.dimtix # 0,
          tick_size |-> st.dimtsz,
          arrow1_name |-> IF ticks THEN NoName ELSE st.arrow1,
          arrow2_name |-> IF ticks THEN NoName ELSE st.arrow2,
          arrow_size |-> st.dimasz,
          dim_line_extension |-> st.dimdle # 0,
          suppress_dim1_line |-> st.dimsd1 # 0,
          suppress_dim2_line |-> st.dimsd2 # 0,
          suppress_ext1_line |-> st.dimse1 # 0,
          suppress_ext2_line |-> st.dimse2 # 0,
          ext_line_extension |-> st.dimexe,
          ext_line_offset |-> st.dimexo,
          ext_line_fixed |-> st.dimexfix # 0,
          ext_line_length |-> (IF st.dimexlen = 0 - 1 THEN st.dimexe ELSE st.dimexlen) # 0,
          dim_line_angle |-> angle,
          text_rotation |->
              IF d.text_rotation # 0 - 1 THEN d.text_rotation
              ELSE IF st.dimjust \in {3, 4} THEN angle + 90 ELSE angle,
          ext1_line_start |-> d.defpoint2,
          ext2_line_start |-> d.defpoint3,
          dim_line_start |-> start,
          dim_line_end |-> end,
          measurement |-> Measurement(start, end) ]

\* LinearDimension.__init__ from the text on
EngineText(g, d, text) ==
    LET width == text_width(text, g.text_height)
        space == width + 2 * (g.arrow_size + g.text_gap)
        outside == TextOutside(g.force_text_inside, space, g.measurement)
        loc == get_text_location(g, d, width)
        arrows_space == 2 * g.arrow_size + g.text_gap
        common == [ text |-> text,
                    required_arrows_space |-> arrows_space,
                    arrows_outside |-> ArrowsOutside(arrows_space, g.measurement),
                    line_start |-> NoPt, line_end |-> NoPt ]
    IN  IF text # <<>>
        THEN g @@ common @@
             [ dim_text_width |-> width,
               required_text_space |-> space,
               text_outside |-> outside,
               text_location |-> loc.location,
               text_box |-> IF loc.raises THEN NoPt
                            ELSE TextBox(loc.location, width, g.text_height,
                                         g.text_rotation, ShrunkGap(g.text_gap)) ]
        ELSE g @@ common @@
             [ dim_text_width |-> 0 - 1,
               required_text_space |-> 0 - 1,
               text_outside |-> FALSE,
               text_location |-> NoPt,
               text_box |-> NoPt ]

\* linear(): LinearDimension(dimension, block, ucs, override)
LinearDimension_init ==
    /\ pc = "linear"
    /\ LET g == EngineGeometry(dimension, style, ucs, drawing)
           d1 == [dimension EXCEPT
                     !.extrusion = IF g.requires_extrusion THEN ucs.uz ELSE @,
                     !.defpoint = g.dim_line_start]
           t == text_override(dimension.text, style,
                              ToMicro(MeasuredValue(g.measurement, g.dim_measurement_factor)))
           loc == get_text_location(g, dimension, text_width(t.text, g.text_height))
       IN  IF t.raises
           THEN /\ dimension' = d1
                /\ eng' = NotBuilt
                /\ pc' = "idle"
                /\ outcome' = Raise(format_text_error(style.dimpost))
           ELSE IF t.text # <<>> /\ loc.raises
           THEN /\ dimension' = [d1 EXCEPT !.text_midpoint =
                                      IF loc.wrote THEN loc.midpoint ELSE @]
                /\ eng' = NotBuilt
                /\ pc' = "idle"
                /\ outcome' = Raise("ZeroDivisionError")
           ELSE /\ dimension' = [d1 EXCEPT !.text_midpoint =
                                      IF t.text # <<>> /\ loc.wrote THEN loc.midpoint ELSE @]
                /\ eng' = EngineText(g, dimension, t.text)
                /\ pc' = "render"
                /\ outcome' = outcome
    /\ UNCHANGED <<style, ucs, drawing, calls, fmtvars, dbvars>>

----------------------------------------------------------------------------
(* LinearDimension.render: the primitives appended to the block *)

\* a primitive of the block: its DXF type, the step of render that added
\* it, its points, and for a block reference its rotation and extrusion
Prim(kind, by, a, b) ==
    [kind |-> kind, by |-> by, a |-> a, b |-> b, rotation |-> 0, extrusion |-> NoPt]

\* DimensionBase.add_line: both points go through wcs()
add_line(u, by, start, end) == Prim("LINE", by, ToWcs(u, start), ToWcs(u, end))

\* DimensionBase.add_text: MTEXT at pos after DXF R12, else TEXT at ocs(pos)
add_text(e, u, dwg, pos) ==
    IF dwg.dxfversion > 1009 THEN Prim("MTEXT", "text", pos, NoPt)
    ELSE Prim("TEXT", "text", ToOcs(u, pos), NoPt)

\* DimensionBase.add_leader
add_leader(u, p1, p2, p3) == <<add_line(u, "leader", p1, p2), add_line(u, "leader", p2, p3)>>

\* render, "add measurement text" and "add leader"
TextPrims(e, u, dwg) ==
    IF e.text # <<>>
    THEN <<add_text(e, u, dwg, e.text_location)>> \o
         (IF e.user_location_override /\ e.text_movement_rule = 1
          THEN add_leader(u, Lerp(e.dim_line_start, e.dim_line_end),
                          e.text_box[1], e.text_box[2])
          ELSE <<>>)
    ELSE <<>>

\* a bool used as a factor of a unit vector: True is one drawing unit
BoolLength(b) == IF b THEN Units(1) ELSE 0

\* LinearDimension.extension_line_points(start, end), for start # end
extension_line_points(e, start, end) ==
    LET v == VSub(end, start)
        s == IF e.ext_line_fixed
             THEN VSub(end, Normalize(v, BoolLength(e.ext_line_length)))
             ELSE VAdd(start, Normalize(v, e.ext_line_offset))
    IN  <<s, VAdd(end, Normalize(v, e.ext_line_extension))>>

\* render, "add extension line": the primitives and the exception raised
ExtensionLine(e, u, by, suppressed, start, end) ==
    IF suppressed THEN [raises |-> "", prims |-> <<>>]
    ELSE IF IsZero(VSub(end, start))
    THEN [raises |-> "ZeroDivisionError", prims |-> <<>>]
    ELSE LET pts == extension_line_points(e, start, end)
         IN  [raises |-> "", prims |-> <<add_line(u, by, pts[1], pts[2])>>]

\* ezdxf.render.arrows.connection_point(arrow_name, insert, scale, rotation)
connection_point(name, insert, scale, rotation) ==
    IF name \in ORIGIN_ZERO THEN insert
    ELSE VSub(insert, FromDegAngle(rotation, scale))

\* add_blockref without the test of the drawing's blocks
add_blockref_unchecked(e, u, dwg, by, name, insert, scale, rotation) ==
    IF name \in ARROWS
    THEN [raises |-> "",
          prims |-> <<[Prim("INSERT", by, insert, NoPt) EXCEPT !.rotation = rotation]>>]
    ELSE [raises |-> "",
          prims |-> <<[Prim("INSERT", by, ToOcs(u, insert), NoPt) EXCEPT
                          !.rotation = rotation,
                          !.extrusion = IF e.requires_extrusion THEN u.uz ELSE NoPt]>>]

\* DimensionBase.add_blockref: the primitive, or the exception raised
add_blockref(e, u, dwg, by, name, insert, scale, rotation) ==
    IF name \in ARROWS
    THEN [raises |-> "",
          prims |-> <<[Prim("INSERT", by, insert, NoPt) EXCEPT !.rotation = rotation]>>]
    ELSE IF name \notin dwg.user_blocks
    THEN [raises |-> "DXFUndefinedBlockError", prims |-> <<>>]
    ELSE [raises |-> "",
          prims |-> <<[Prim("INSERT", by, ToOcs(u, insert), NoPt) EXCEPT
                          !.rotation = rotation,
                          !.extrusion = IF e.requires_extrusion THEN u.uz ELSE NoPt]>>]

\* has_arrow_extension of add_arrows
has_arrow_extension(name) == name # NoName /\ name \in ARROWS /\ name \notin ORIGIN_ZERO

\* add_arrows, "add extension lines to arrows if outside", for start # end
ArrowExtensions(e, start, end) ==
    LET arrow_vector == Normalize(VSub(end, start), e.arrow_size)
        s1 == VSub(start, arrow_vector)
        s2 == VAdd(end, arrow_vector)
    IN  (IF has_arrow_extension(e.arrow1_name)
         THEN <<Prim("LINE", "arrow_ext", s1, VSub(s1, arrow_vector))>> ELSE <<>>) \o
        (IF has_arrow_extension(e.arrow2_name)
         THEN <<Prim("LINE", "arrow_ext", s2, VAdd(s2, arrow_vector))>> ELSE <<>>)

\* LinearDimension.add_arrows(start, end, outside): the primitives appended
\* before it returns or raises, and the start and end it returns
add_arrows(e, u, dwg, start, end, outside) ==
    LET start_angle == IF outside THEN e.dim_line_angle ELSE e.dim_line_angle + 180
        end_angle == IF outside THEN e.dim_line_angle + 180 ELSE e.dim_line_angle
        ticks == e.tick_size > 0
        ref1 == add_blockref(e, u, dwg, "arrow1", e.arrow1_name, start, e.arrow_size,
                             start_angle)
        ref2 == add_blockref(e, u, dwg, "arrow2", e.arrow2_name, end, e.arrow_size,
                             end_angle)
        marks == IF ticks
                 THEN << [Prim("ARROW", "arrow1", start, NoPt) EXCEPT
                             !.rotation = e.dim_line_angle],
                         [Prim("ARROW", "arrow2", end, NoPt) EXCEPT
                             !.rotation = e.dim_line_angle] >>
                 ELSE ref1.prims \o (IF ref1.raises = "" THEN ref2.prims ELSE <<>>)
        failed == IF ticks THEN ""
                  ELSE IF ref1.raises # "" THEN ref1.raises ELSE ref2.raises
        s == IF ticks \/ outside THEN start
             ELSE connection_point(e.arrow1_name, start, e.arrow_size, start_angle)
        t == IF ticks \/ outside THEN end
             ELSE connection_point(e.arrow2_name, end, e.arrow_size, end_angle)
    IN  IF failed # "" THEN [raises |-> failed, prims |-> marks, start |-> NoPt, end |-> NoPt]
        ELSE IF ~outside THEN [raises |-> "", prims |-> marks, start |-> s, end |-> t]
        ELSE IF IsZero(VSub(t, s))
        THEN [raises |-> "ZeroDivisionError", prims |-> marks, start |-> NoPt, end |-> NoPt]
        ELSE [raises |-> "", prims |-> marks \o ArrowExtensions(e, s, t),
              start |-> s, end |-> t]

\* TextBox.border_lines
border_lines(corners) ==
    << <<corners[1], corners[2]>>, <<corners[2], corners[3]>>,
       <<corners[3], corners[4]>>, <<corners[4], corners[1]>> >>

\* sorted(): a set of points as a sequence in Vector order
RECURSIVE Sorted(_)
Sorted(points) ==
    IF points = {} THEN <<>>
    ELSE LET least == CHOOSE p \in points : \A q \in points : q = p \/ VLess(p, q)
         IN  <<least>> \o Sorted(points \ {least})

\* TextBox.intersect(ConstructionLine(start, end))
TextBoxIntersect(corners, start, end) ==
    LET hits == { LineIntersect(start, end, border_lines(corners)[i][1],
                                border_lines(corners)[i][2]) : i \in 1..4 }
    IN  Sorted(hits \ {NoPt})

\* order with the comparison reversed: the point farther from start first
order_reversed(start, a, b) ==
    IF Magnitude(VSub(start, a)) > Magnitude(VSub(start, b)) THEN <<a, b>> ELSE <<b, a>>

\* order(a, b) of add_dimension_line: the point nearer to start first
order(start, a, b) ==
    IF Magnitude(VSub(start, a)) < Magnitude(VSub(start, b)) THEN <<a, b>> ELSE <<b, a>>

\* add_dimension_line: start and end after the dimension line extension
ExtendedLine(e, start, end) ==
    LET extension == Normalize(VSub(end, start), BoolLength(e.dim_line_extension))
    IN  << IF e.arrow1_name = NoName \/ has_extension_line(e.arrow1_name)
           THEN VSub(start, extension) ELSE start,
           IF e.arrow2_name = NoName \/ has_extension_line(e.arrow2_name)
           THEN VAdd(end, extension) ELSE end >>

\* add_dimension_line: where the text box's border crosses the line
intersection_points(e, start, end) ==
    IF e.text_box # NoPt THEN TextBoxIntersect(e.text_box, start, end) ELSE <<>>

\* DimensionLinePrims with the unbroken line suppressed like a segment
DimensionLinePrims_suppressing(e, u, start, end, points) ==
    IF Len(points) = 2
    THEN LET p == order(start, points[1], points[2])
         IN  (IF ~e.suppress_dim1_line THEN <<add_line(u, "dim_line", start, p[1])>>
              ELSE <<>>) \o
             (IF ~e.suppress_dim2_line THEN <<add_line(u, "dim_line", p[2], end)>>
              ELSE <<>>)
    ELSE IF e.suppress_dim1_line /\ e.suppress_dim2_line THEN <<>>
    ELSE <<add_line(u, "dim_line", start, end)>>

\* add_dimension_line: the lines added for the crossing points found
DimensionLinePrims(e, u, start, end, points) ==
    IF Len(points) = 2
    THEN LET p == order(start, points[1], points[2])
         IN  (IF ~e.suppress_dim1_line THEN <<add_line(u, "dim_line", start, p[1])>>
              ELSE <<>>) \o
             (IF ~e.suppress_dim2_line THEN <<add_line(u, "dim_line", p[2], end)>>
              ELSE <<>>)
    ELSE <<add_line(u, "dim_line", start, end)>>

\* LinearDimension.add_dimension_line(start, end)
add_dimension_line(e, u, start, end) ==
    IF IsZero(VSub(end, start)) THEN [raises |-> "ZeroDivisionError", prims |-> <<>>]
    ELSE LET line == ExtendedLine(e, start, end)
         IN  [raises |-> "",
              prims |-> DimensionLinePrims(e, u, line[1], line[2],
                                           intersection_points(e, line[1], line[2]))]

\* DimensionBase.add_defpoints
add_defpoints(u, points) ==
    [i \in 1..Len(points) |-> Prim("POINT", "defpoint", ToWcs(u, points[i]), NoPt)]

\* the block named by dimension.dxf.geometry with primitives appended
Appended(prims) ==
    [drawing EXCEPT !.blocks[dimension.geometry] = @ \o prims]

\* render with extension line 2 added before extension line 1
AfterStep_ext2_first(step) ==
    IF step = "render" THEN "ext2"
    ELSE IF step = "ext2" THEN "ext1"
    ELSE IF step = "ext1" THEN "arrows"
    ELSE IF step = "arrows" THEN "dim_line"
    ELSE IF step = "dim_line" THEN "defpoints"
    ELSE IF step = "defpoints" THEN "to_wcs"
    ELSE "idle"

\* the order of the steps of render
AfterStep(step) ==
    IF step = "render" THEN "ext1"
    ELSE IF step = "ext1" THEN "ext2"
    ELSE IF step = "ext2" THEN "arrows"
    ELSE IF step = "arrows" THEN "dim_line"
    ELSE IF step = "dim_line" THEN "defpoints"
    ELSE IF step = "defpoints" THEN "to_wcs"
    ELSE "idle"

\* a step of render that appended prims and raised the exception raises,
\* or none ("")
RenderStep(step, prims, raises) ==
    /\ pc = step
    /\ drawing' = Appended(prims)
    /\ IF raises # ""
       THEN pc' = "idle" /\ outcome' = Raise(raises)
       ELSE pc' = AfterStep(step) /\ outcome' = outcome
    /\ UNCHANGED <<dimension, style, ucs, calls, fmtvars, dbvars>>

\* render: add measurement text, add leader
render_text ==
    /\ pc = "render"
    /\ RenderStep("render", TextPrims(eng, ucs, drawing), "")
    /\ eng' = eng

\* render: add extension line 1
render_ext1 ==
    /\ pc = "ext1"
    /\ LET r == ExtensionLine(eng, ucs, "ext1", eng.suppress_ext1_line,
                              eng.ext1_line_start, eng.dim_line_start)
       IN  RenderStep("ext1", r.prims, r.raises)
    /\ eng' = eng

\* render: add extension line 2
render_ext2 ==
    /\ pc = "ext2"
    /\ LET r == ExtensionLine(eng, ucs, "ext2", eng.suppress_ext2_line,
                              eng.ext2_line_start, eng.dim_line_end)
       IN  RenderStep("ext2", r.prims, r.raises)
    /\ eng' = eng

\* render: add arrow symbols, adjust dimension line start and end point
render_arrows ==
    /\ pc = "arrows"
    /\ LET r == add_arrows(eng, ucs, drawing, eng.dim_line_start, eng.dim_line_end,
                           eng.arrows_outside)
       IN  /\ RenderStep("arrows", r.prims, r.raises)
           /\ eng' = [eng EXCEPT !.line_start = r.start, !.line_end = r.end]

\* render: add dimension line
render_dimension_line ==
    /\ pc = "dim_line"
    /\ LET r == add_dimension_line(eng, ucs, eng.line_start, eng.line_end)
       IN  RenderStep("dim_line", r.prims, r.raises)
    /\ eng' = eng

\* render: add POINT entities at definition points
render_defpoints ==
    /\ pc = "defpoints"
    /\ RenderStep("defpoints",
                  add_defpoints(ucs, <<eng.dim_line_start, eng.ext1_line_start,
                                       eng.ext2_line_start>>), "")
    /\ eng' = eng

\* LinearDimension.defpoints_to_wcs, then render and dispatch return
defpoints_to_wcs ==
    /\ pc = "to_wcs"
    /\ dimension' = [dimension EXCEPT
                        !.defpoint = ToWcs(ucs, @),
                        !.defpoint2 = ToWcs(ucs, @),
                        !.defpoint3 = ToWcs(ucs, @),
                        !.text_midpoint = ToOcs(ucs, @)]
    /\ pc' = AfterStep("to_wcs")
    /\ outcome' = "returned"
    /\ UNCHANGED <<style, ucs, drawing, eng, calls, fmtvars, dbvars>>

Next ==
    \/ dispatch
    \/ dispatch_dim_type
    \/ LinearDimension_init
    \/ render_text
    \/ render_ext1
    \/ render_ext2
    \/ render_arrows
    \/ render_dimension_line
    \/ render_defpoints
    \/ defpoints_to_wcs

Spec == Init /\ [][Next]_vars

----------------------------------------------------------------------------
(* format_text as a function: one call for every combination of arguments *)

\* values in 1/100000: 3.14159, 0, -0.5, 12.5, 0.05
FormatValues == {314159, 0, 0 - 50000, 1250000, 5000}

\* dimpost: none, with "<>", without "<>", with braces
Templates ==
    { <<>>, <<"<", ">">>, <<"<", ">", "m", "m">>, <<"m", "<", ">", "m", "<", ">">>,
      <<"m", "m">>, <<"<">>, <<"{", "<", ">", "}">>, <<"<", ">", "{", "}">>,
      <<"<", ">", "}">>, <<"{", "m", "}", "<", ">">>, <<"<", ">", "{", "{", "m", "}", "}">>,
      <<"{", "<", ">">> }

FormatCalls ==
    [ pc : {"called"}, value : FormatValues, dimrnd : {0 - 1, 25000},
      dimdec : {0 - 1, 0, 2}, dimzin : {0, 4, 8, 12}, dimdsep : {<<".">>, <<",">>},
      dimpost : Templates, raises : {""}, text : {<<>>} ]

\* no dimension is dispatched, no method of EntityDB runs
InitFormat ==
    /\ fmt \in FormatCalls
    /\ dimension = <<>> /\ style = <<>> /\ ucs = <<>> /\ drawing = <<>>
    /\ eng = NotBuilt /\ pc = "idle" /\ outcome = "none" /\ calls = 0
    /\ database = <<>> /\ handles = 0 /\ call = NoCall /\ ops = 0

\* format_text(value, dimrnd, dimdec, dimzin, dimdsep, dimpost) returns
format_text_returns ==
    /\ fmt.pc = "called"
    /\ format_text_error(fmt.dimpost) = ""
    /\ fmt' = [fmt EXCEPT !.pc = "returned",
                          !.text = format_text(fmt.value, fmt.dimrnd, fmt.dimdec,
                                               fmt.dimzin, fmt.dimdsep, fmt.dimpost)]
    /\ UNCHANGED <<dimvars, dbvars>>

\* format_text(value, dimrnd, dimdec, dimzin, dimdsep, dimpost) raises
format_text_fails ==
    /\ fmt.pc = "called"
    /\ format_text_error(fmt.dimpost) # ""
    /\ fmt' = [fmt EXCEPT !.pc = "raised", !.raises = format_text_error(fmt.dimpost)]
    /\ UNCHANGED <<dimvars, dbvars>>

NextFormat == format_text_returns \/ format_text_fails

SpecFormat == InitFormat /\ [][NextFormat]_vars

----------------------------------------------------------------------------
(* EntityDB (src/ezdxf/database.py): handles are strings, tags are records *)

MaxOps == 4
MaxTurns == 6

\* tags without a handle tag (get_handle raises DXFValueError)
NoHandle == <<>>

\* ExtendedTags.link is None
NoLink == <<>>

HexDigits == <<"0", "1", "2", "3", "4", "5", "6", "7", "8", "9", "A", "B", "C", "D",
               "E", "F">>

\* HandleGenerator.__str__: "%X" % n
RECURSIVE Hex(_)
Hex(n) == IF n < 16 THEN <<HexDigits[n + 1]>>
          ELSE Hex(n \div 16) \o <<HexDigits[(n % 16) + 1]>>

\* self._database[handle] = tags
Put(db, handle, tags) ==
    [k \in DOMAIN db \cup {handle} |-> IF k = handle THEN tags ELSE db[k]]

\* del self._database[handle]
Remove(db, handle) == [k \in DOMAIN db \ {handle} |-> db[k]]

\* get_unique_handle that trusts the generator: its next value as it is
get_unique_handle_trusting(db, seed) == [handle |-> Hex(seed), handles |-> seed + 1]

\* EntityDB.get_unique_handle: the handle returned and the generator after
\* it, from the generator value seed on
RECURSIVE get_unique_handle(_, _)
get_unique_handle(db, seed) ==
    IF Hex(seed) \notin DOMAIN db THEN [handle |-> Hex(seed), handles |-> seed + 1]
    ELSE get_unique_handle(db, seed + 1)

\* ExtendedTags.clone
Clone(tags) == tags

\* tags.noclass.replace_handle(handle), for tags that hold a handle tag
replace_handle(tags, handle) == [tags EXCEPT !.handle = handle]

\* EntityDB.add_tags(tags): the database and the generator after it, and
\* the handle returned
add_tags(db, seed, tags) ==
    IF tags.handle # NoHandle
    THEN [database |-> Put(db, tags.handle, tags), handles |-> seed, handle |-> tags.handle]
    ELSE LET u == get_unique_handle(db, seed)
         IN  [database |-> Put(db, u.handle, [tags EXCEPT !.handle = u.handle]),
              handles |-> u.handles, handle |-> u.handle]

\* duplicate_tags without "parent_copy.link = new_handle"
LinkCopy_skipped(db, parent_copy, new_handle) == db

\* duplicate_tags, parent_copy.link = new_handle: parent_copy is the object
\* stored under its handle
LinkCopy(db, parent_copy, new_handle) ==
    Put(db, parent_copy, [db[parent_copy] EXCEPT !.link = new_handle])

\* a clone of tags under a new unique handle, added to the database
AddCopy(db, seed, tags) ==
    LET u == get_unique_handle(db, seed)
    IN  add_tags(db, u.handles, replace_handle(Clone(tags), u.handle))

\* the tags handed to add_tags and to __setitem__
InputTags ==
    [handle : {NoHandle, <<"1">>, <<"4">>}, link : {NoLink, <<"1">>}, dxftype : {"VERTEX"}]

InputKeys == {<<"2">>, <<"5">>}

\* an entity stored under its own handle
Entity(handle, link, dxftype) == [handle |-> handle, link |-> link, dxftype |-> dxftype]

\* a database of the entities es, each under its own handle
Loaded(es) == [k \in {e.handle : e \in es} |-> CHOOSE e \in es : e.handle = k]

\* a loaded drawing: empty; a POLYLINE linked to a VERTEX linked to a
\* SEQEND; two entities linked in a cycle; a link to a missing handle; two
\* unlinked entities under handles the generator has not reached
Databases ==
    { Loaded({}),
      Loaded({Entity(<<"1">>, <<"2">>, "POLYLINE"), Entity(<<"2">>, <<"3">>, "VERTEX"),
              Entity(<<"3">>, NoLink, "SEQEND")}),
      Loaded({Entity(<<"1">>, <<"2">>, "INSERT"), Entity(<<"2">>, <<"1">>, "ATTRIB")}),
      Loaded({Entity(<<"1">>, <<"4">>, "INSERT")}),
      Loaded({Entity(<<"2">>, NoLink, "LINE"), Entity(<<"3">>, NoLink, "DIMSTYLE")}) }

\* EntityDB() with a loaded database; the drawing resets the generator to
\* its $HANDSEED, which can not be trusted
InitDB ==
    /\ database \in Databases
    /\ handles \in {1, 3}
    /\ call = NoCall
    /\ ops = 0
    /\ fmt = NoCall
    /\ dimension = <<>> /\ style = <<>> /\ ucs = <<>> /\ drawing = <<>>
    /\ eng = NotBuilt /\ pc = "idle" /\ outcome = "none" /\ calls = 0

\* no method runs and one more may be called
Callable == call.pc \in {"none", "done", "raised"} /\ ops < MaxOps

\* a method that has returned result
Done(op, arg, result) ==
    [pc |-> "done", op |-> op, arg |-> arg, before |-> database, seed |-> handles,
     result |-> result]

\* EntityDB.add_tags(tags)
db_add_tags ==
    /\ Callable
    /\ \E tags \in InputTags :
          LET r == add_tags(database, handles, tags)
          IN  /\ database' = r.database
              /\ handles' = r.handles
              /\ call' = Done("add_tags", tags, r.handle)
    /\ ops' = ops + 1
    /\ UNCHANGED <<dimvars, fmtvars>>

\* EntityDB.__setitem__(handle, tags)
db_setitem ==
    /\ Callable
    /\ \E handle \in InputKeys, tags \in {t \in InputTags : t.handle # NoHandle} :
          /\ database' = Put(database, handle, tags)
          /\ call' = Done("__setitem__", handle, NoHandle)
    /\ ops' = ops + 1
    /\ UNCHANGED <<handles, dimvars, fmtvars>>

\* EntityDB.delete_handle(handle): del raises KeyError for a missing handle
db_delete_handle ==
    /\ Callable
    /\ \E handle \in DOMAIN database \cup {<<"9">>} :
          IF handle \in DOMAIN database
          THEN /\ database' = Remove(database, handle)
               /\ call' = Done("delete_handle", handle, NoHandle)
          ELSE /\ database' = database
               /\ call' = [pc |-> "raised", op |-> "delete_handle", raises |-> "KeyError"]
    /\ ops' = ops + 1
    /\ UNCHANGED <<handles, dimvars, fmtvars>>

\* EntityDB.get_unique_handle()
db_get_unique_handle ==
    /\ Callable
    /\ LET u == get_unique_handle(database, handles)
       IN  /\ handles' = u.handles
           /\ call' = Done("get_unique_handle", NoHandle, u.handle)
    /\ ops' = ops + 1
    /\ UNCHANGED <<database, dimvars, fmtvars>>

\* duplicate_tags(tags) up to the loop: the clone of tags is added under a
\* new handle; tags is an entity of the database
duplicate_tags_begin ==
    /\ Callable
    /\ \E source \in DOMAIN database :
          LET tags == database[source]
              r == AddCopy(database, handles, tags)
          IN  /\ database' = r.database
              /\ handles' = r.handles
              /\ call' = [pc |-> "loop", op |-> "duplicate_tags", arg |-> source,
                          before |-> database, seed |-> handles, new_tags |-> r.handle,
                          source_link |-> tags.link, parent_copy |-> r.handle,
                          copies |-> <<r.handle>>]
    /\ ops' = ops + 1
    /\ UNCHANGED <<dimvars, fmtvars>>

\* duplicate_tags, one turn of "while source_link is not None": self.get
\* returns None for a missing handle and None.clone() is an AttributeError;
\* the turns of a loop that does not end are cut at MaxTurns
duplicate_tags_loop ==
    /\ call.pc = "loop"
    /\ call.source_link # NoLink
    /\ Len(call.copies) <= MaxTurns
    /\ IF call.source_link \notin DOMAIN database
       THEN /\ call' = [pc |-> "raised", op |-> "duplicate_tags", arg |-> call.arg,
                        before |-> call.before, raises |-> "AttributeError"]
            /\ UNCHANGED <<database, handles>>
       ELSE LET source_linked_entity == database[call.source_link]
                r == AddCopy(database, handles, source_linked_entity)
            IN  /\ database' = LinkCopy(r.database, call.parent_copy, r.handle)
                /\ handles' = r.handles
                /\ call' = [call EXCEPT !.source_link = source_linked_entity.link,
                                        !.parent_copy = r.handle,
                                        !.copies = Append(@, r.handle)]
    /\ UNCHANGED <<ops, dimvars, fmtvars>>

\* duplicate_tags, "return new_tags" when source_link is None
duplicate_tags_return ==
    /\ call.pc = "loop"
    /\ call.source_link = NoLink
    /\ call' = [pc |-> "done", op |-> "duplicate_tags", arg |-> call.arg,
                before |-> call.before, seed |-> call.seed, result |-> call.new_tags,
                copies |-> call.copies]
    /\ UNCHANGED <<database, handles, ops, dimvars, fmtvars>>

NextDB ==
    \/ db_add_tags
    \/ db_setitem
    \/ db_delete_handle
    \/ db_get_unique_handle
    \/ duplicate_tags_begin
    \/ duplicate_tags_loop
    \/ duplicate_tags_return

SpecDB == InitDB /\ [][NextDB]_vars

----------------------------------------------------------------------------
(* Properties *)

RenderPcs == {"render", "ext1", "ext2", "arrows", "dim_line", "defpoints", "to_wcs"}

\* a dispatch call has ended
Ended == pc = "idle" /\ outcome # "none"

\* the primitives of the current block added by the steps in bys
PrimsBy(bys) == SelectSeq(Block, LAMBDA q : q.by \in bys)

\* C1: dispatch on a type code 2..6 ends in the "not implemented" error,
\* NotImplementedError, which reaches the caller.
C1_StubsRaiseNotImplementedError ==
    (Ended /\ dimension.dim_type \in 2..6) => outcome = "NotImplementedError"

\* C2: dispatch hands type codes 0 and 1 to linear, which constructs the
\* LinearDimension and then renders; for a type code outside 0..6 it raises
\* DXFValueError and no layout engine runs: nothing is built, nothing is
\* appended to the block and the entity is left as it was.
C2_DispatchRouting ==
    /\ [](eng.built \/ pc \in RenderPcs \/ pc = "linear" => dimension.dim_type \in {0, 1})
    /\ [][pc = "dim_type" =>
            /\ dimension.dim_type \in {0, 1} => pc' = "linear" /\ outcome' = "running"
            /\ dimension.dim_type \notin 0..6 =>
                  /\ pc' = "idle" /\ outcome' = "DXFValueError"
                  /\ eng' = NotBuilt /\ drawing' = drawing /\ dimension' = dimension]_vars
    /\ [][pc = "linear" => pc' \in {"render", "idle"}]_vars
    /\ [][pc = "linear" /\ pc' = "render" => eng'.built]_vars

C2_Witness ==
    /\ Ended /\ dimension.dim_type = 7 /\ outcome = "DXFValueError"
    /\ Block = <<>> /\ eng = NotBuilt

\* C3: every dispatch call allocates exactly one new anonymous block and
\* records its name in dimension.dxf.geometry before the type code is
\* examined, before any layout engine is built and before any error.
C3_BlockAllocatedFirst ==
    /\ Len(drawing.blocks) = calls
    /\ calls > 0 => dimension.geometry = calls
    /\ pc = "dim_type" =>
          /\ Block = <<>>
          /\ eng = NotBuilt
          /\ outcome = "running"
    /\ outcome \in ExceptionClasses \cup {"returned"} => calls > 0

C3_Witness ==
    /\ pc = "dim_type" /\ calls = 2 /\ dimension.dim_type = 2
    /\ Len(drawing.blocks) = 2 /\ dimension.geometry = 2

\* the place of a primitive in the order of render
Rank(by) ==
    IF by = "text" THEN 1
    ELSE IF by = "leader" THEN 2
    ELSE IF by = "ext1" THEN 3
    ELSE IF by = "ext2" THEN 4
    ELSE IF by = "arrow1" THEN 5
    ELSE IF by = "arrow2" THEN 6
    ELSE IF by = "arrow_ext" THEN 7
    ELSE IF by = "dim_line" THEN 8
    ELSE 9

\* C4: the block is filled in one order: text, leader lines, extension
\* line 1, extension line 2, the arrows, the dimension line, the three
\* defining point markers (dimension line start, extension origins 1 and
\* 2); the stored defining points are transformed only after all of them.
C4_RenderOrder ==
    /\ [](calls > 0 =>
            /\ \A i, j \in 1..Len(Block) : i < j => Rank(Block[i].by) <= Rank(Block[j].by)
            /\ Len(PrimsBy({"text"})) <= 1
            /\ Len(PrimsBy({"ext1"})) <= 1 /\ Len(PrimsBy({"ext2"})) <= 1
            /\ Len(PrimsBy({"arrow1"})) <= 1 /\ Len(PrimsBy({"arrow2"})) <= 1
            /\ Len(PrimsBy({"dim_line"})) <= 2)
    /\ [](pc = "to_wcs" \/ (Ended /\ outcome = "returned") =>
            /\ Len(PrimsBy({"text"})) = (IF eng.text # <<>> THEN 1 ELSE 0)
            /\ Len(PrimsBy({"ext1"})) = (IF style.dimse1 # 0 THEN 0 ELSE 1)
            /\ Len(PrimsBy({"ext2"})) = (IF style.dimse2 # 0 THEN 0 ELSE 1)
            /\ Len(PrimsBy({"arrow1"})) = 1 /\ Len(PrimsBy({"arrow2"})) = 1
            /\ LET marks == PrimsBy({"defpoint"})
               IN  /\ Len(marks) = 3
                   /\ marks[1].a = ToWcs(ucs, eng.dim_line_start)
                   /\ marks[2].a = ToWcs(ucs, eng.ext1_line_start)
                   /\ marks[3].a = ToWcs(ucs, eng.ext2_line_start))
    /\ [][ \/ dimension'.defpoint2 # dimension.defpoint2
           \/ dimension'.defpoint3 # dimension.defpoint3
           => pc = "to_wcs" /\ drawing' = drawing ]_vars
    /\ [][pc = "to_wcs" => pc' = "idle" /\ outcome' = "returned" /\ drawing' = drawing]_vars

C4_Witness ==
    /\ Ended /\ outcome = "returned"
    /\ Len(PrimsBy({"leader"})) = 2
    /\ Len(PrimsBy({"text"})) = 1
    /\ Len(PrimsBy({"ext1", "ext2"})) = 2
    /\ Len(PrimsBy({"dim_line"})) = 1
    /\ Len(Block) = 11
    /\ ucs # PassTroughUCS

\* C5: a text attribute of one blank resolves to the empty text whatever
\* the formatting options are, and then no text, no text box and no leader
\* is produced; "" and "<>" resolve to the formatted measurement; any other
\* string is used as it is and the formatting options are not applied.
C5_TextOverride ==
    /\ dimension.text = TextBlank =>
          /\ calls > 0 => PrimsBy({"text", "leader"}) = <<>>
          /\ eng.built => eng.text = <<>> /\ eng.text_box = NoPt /\ eng.text_location = NoPt
    /\ dimension.text \in {<<>>, TextPlaceholder} /\ eng.built =>
          eng.text = format_text(ToMicro(eng.measurement * style.dimlfac), style.dimrnd,
                                 style.dimdec, style.dimzin, style.dimdsep, style.dimpost)
    /\ dimension.text \notin {<<>>, TextPlaceholder, TextBlank} /\ eng.built =>
          eng.text = dimension.text
    /\ dimension.text \notin {<<>>, TextPlaceholder} => outcome # "DXFValueError"
                                                       \/ dimension.dim_type \notin {0, 1}
    /\ pc \in RenderPcs \ {"render"} \/ (Ended /\ outcome = "returned") =>
          Len(PrimsBy({"text"})) = (IF dimension.text = TextBlank THEN 0 ELSE 1)

C5_Witness ==
    /\ Ended /\ outcome = "returned"
    /\ dimension.text = TextBlank
    /\ style.dimpost = <<"m", "m">>
    /\ eng.text = <<>> /\ eng.text_box = NoPt
    /\ Len(Block) = 8

\* C6 as claimed: measurement is >= 0 and is the distance between
\* dim_line_start and dim_line_end multiplied by dimlfac.
C6_MeasurementTimesFactor ==
    eng.built =>
        /\ eng.measurement >= 0
        /\ LET v == VSub(eng.dim_line_end, eng.dim_line_start)
           IN  eng.measurement * eng.measurement
                   = (v[1] * v[1] + v[2] * v[2]) * style.dimlfac * style.dimlfac

\* C6 as amended: measurement is >= 0 and is the distance between
\* dim_line_start and dim_line_end, whatever dimlfac is; dimlfac scales only
\* the value that is formatted as the measurement text.
C6_MeasurementIsDistance ==
    eng.built =>
        /\ eng.measurement >= 0
        /\ LET v == VSub(eng.dim_line_end, eng.dim_line_start)
           IN  eng.measurement * eng.measurement = v[1] * v[1] + v[2] * v[2]
        /\ eng.dim_line_start[3] = 0 /\ eng.dim_line_end[3] = 0
        /\ dimension.text \in {<<>>, TextPlaceholder} /\ style.dimdec = 0 - 1
           /\ style.dimpost = TextPlaceholder /\ style.dimdsep = <<".">> =>
              eng.text = NatToStr((eng.measurement * style.dimlfac) \div 100)

C6_Witness ==
    /\ eng.built /\ pc = "render"
    /\ style.dimlfac = 2
    /\ eng.dim_line_start = <<0, Units(2), 0>> /\ eng.dim_line_end = <<Units(10), Units(2), 0>>
    /\ eng.measurement = Units(10)
    /\ eng.text = <<"2", "0">>

OnRay(p, q, deg) == Cross2(VSub(p, q), Dir(deg)) = 0 /\ p[3] = 0

\* C8: constructing the engine rewrites the entity's defpoint to
\* dim_line_start, the point on the dimension line ray and on the extension
\* ray through defpoint2; the dimension line ray goes through text_midpoint
\* when the user moved the text and the movement rule is 0, through the
\* original defpoint otherwise.  The rewrite stays on the entity during
\* render, and after render the entity holds its image under to_wcs.
C8_DefpointRewritten ==
    /\ [][pc = "linear" =>
            LET anchor == IF dimension.user_location_override /\ style.dimtmove = 0
                          THEN dimension.text_midpoint ELSE dimension.defpoint
                p == dimension'.defpoint
            IN  /\ OnRay(p, anchor, dimension.angle)
                /\ OnRay(p, dimension.defpoint2, dimension.angle + 90)
                /\ pc' = "render" => eng'.dim_line_start = p]_vars
    /\ [](pc \in RenderPcs => dimension.defpoint = eng.dim_line_start)
    /\ [](Ended /\ outcome = "returned" =>
              dimension.defpoint = ToWcs(ucs, eng.dim_line_start))

C8_Witness ==
    /\ Ended /\ outcome = "returned"
    /\ dimension.user_location_override /\ style.dimtmove = 0
    /\ eng.dim_line_start = <<0, Units(4), 0>>
    /\ ucs.origin = <<Units(1), Units(2), 0>>
    /\ dimension.defpoint = <<Units(1), Units(6), 0>>

\* the unit vector from a to b, for points on a line along an axis
UnitTo(a, b) == <<Sgn(b[1] - a[1]), Sgn(b[2] - a[2]), 0>>

\* C9 as claimed: without a user location override the engine's text
\* location is written back to text_midpoint; with one, the layout never
\* writes text_midpoint, and under a movement rule other than 0 the user's
\* point is the text location.
C9_TextLocationWrittenBack ==
    [][pc = "linear" /\ pc' = "render" /\ eng'.text # <<>> =>
          /\ ~dimension.user_location_override =>
                dimension'.text_midpoint = eng'.text_location
          /\ dimension.user_location_override =>
                dimension'.text_midpoint = dimension.text_midpoint
          /\ dimension.user_location_override /\ style.dimtmove # 0 =>
                eng'.text_location = dimension.text_midpoint]_vars

\* C9 as amended: without a user location override (and with a text) the
\* point written back to text_midpoint is the location on the dimension line
\* before the lift, and the engine's text location is that point lifted
\* perpendicular to the dimension line; the two agree only when the lift is
\* 0.  With a user location override the layout never writes text_midpoint,
\* and under a movement rule other than 0 the user's point is the text
\* location, with no offset and no lift.
C9_TextMidpointBeforeLift ==
    [][pc = "linear" =>
          /\ dimension.user_location_override =>
                dimension'.text_midpoint = dimension.text_midpoint
          /\ pc' = "render" /\ eng'.text = <<>> =>
                dimension'.text_midpoint = dimension.text_midpoint
          /\ pc' = "render" /\ eng'.text # <<>> =>
                /\ dimension.user_location_override /\ style.dimtmove # 0 =>
                      eng'.text_location = dimension.text_midpoint
                /\ ~dimension.user_location_override =>
                      LET start == eng'.dim_line_start
                          end == eng'.dim_line_end
                          width == Len(eng'.text) * style.dimtxt
                          along == (style.dimtxt \div 2 + style.dimgap)
                                       * vertical_factor(style.dimtad)
                          vdist == IF style.dimjust \in {0, 1, 2} THEN along
                                   ELSE style.dimgap + style.dimasz + width \div 2
                          lift == VScale(Orthogonal(UnitTo(start, end)), vdist)
                      IN  /\ eng'.text_location = VAdd(dimension'.text_midpoint, lift)
                          /\ style.dimjust = 0 =>
                                VScale(dimension'.text_midpoint, 2) = VAdd(start, end)]_vars

C9_Witness ==
    /\ pc = "render" /\ eng.text # <<>>
    /\ ~dimension.user_location_override
    /\ style.dimtad = 1
    /\ dimension.text_midpoint = <<Units(5), Units(2), 0>>
    /\ eng.text_location = <<Units(5), 350, 0>>

DimLineDone == pc \in {"defpoints", "to_wcs"} \/ (Ended /\ outcome = "returned")

\* the squared distance of two points
Dist2(a, b) == VDot(VSub(a, b), VSub(a, b))

\* the start and end of the dimension line inside add_dimension_line
DimLine == ExtendedLine(eng, eng.line_start, eng.line_end)

\* the points where the text box's border crosses the dimension line
Crossings ==
    IF eng.text_box = NoPt THEN {}
    ELSE { LineIntersect(DimLine[1], DimLine[2], eng.text_box[i],
                         eng.text_box[(i % 4) + 1]) : i \in 1..4 } \ {NoPt}

Nearer == CHOOSE p \in Crossings : \A q \in Crossings : Dist2(DimLine[1], p) <= Dist2(DimLine[1], q)

Farther == CHOOSE p \in Crossings : \A q \in Crossings : Dist2(DimLine[1], p) >= Dist2(DimLine[1], q)

DimSegment(a, b) == Prim("LINE", "dim_line", ToWcs(ucs, a), ToWcs(ucs, b))

\* C10 as claimed: two segments, start to the nearer crossing and the
\* farther crossing to end, exactly when a text box exists and its border
\* crosses the dimension line in two points; otherwise one line from start
\* to end.
C10_TwoSegmentsWhenCrossed ==
    DimLineDone =>
        PrimsBy({"dim_line"}) =
            IF Cardinality(Crossings) = 2
            THEN <<DimSegment(DimLine[1], Nearer), DimSegment(Farther, DimLine[2])>>
            ELSE <<DimSegment(DimLine[1], DimLine[2])>>

\* C10 as amended: when a text box exists and its border crosses the
\* dimension line in two points the line is split: the segment from start to
\* the nearer crossing is added unless dimsd1 is set, the segment from the
\* farther crossing to end unless dimsd2 is set; with no, one or no text box
\* crossing exactly one line from start to end is added.
C10_SplitUnlessSuppressed ==
    DimLineDone =>
        PrimsBy({"dim_line"}) =
            IF Cardinality(Crossings) = 2
            THEN (IF style.dimsd1 = 0 THEN <<DimSegment(DimLine[1], Nearer)>> ELSE <<>>) \o
                 (IF style.dimsd2 = 0 THEN <<DimSegment(Farther, DimLine[2])>> ELSE <<>>)
            ELSE <<DimSegment(DimLine[1], DimLine[2])>>

C10_Witness ==
    /\ DimLineDone
    /\ Cardinality(Crossings) = 2
    /\ style.dimsd1 = 1 /\ style.dimsd2 = 0
    /\ PrimsBy({"dim_line"}) =
           <<DimSegment(<<699, Units(2), 0>>, <<Units(9), Units(2), 0>>)>>

----------------------------------------------------------------------------

\* the fixed length of the style: dimexlen, by default dimexe
ConfiguredLength == IF style.dimexlen = 0 - 1 THEN style.dimexe ELSE style.dimexlen

\* the extension line from the measurement point from to the point at on
\* the dimension line, trimmed by dimexfix, dimexlen, dimexo and dimexe
TrimmedExtensionLine(by, from, at) ==
    LET u == UnitTo(from, at)
    IN  Prim("LINE", by,
             ToWcs(ucs, IF style.dimexfix # 0 THEN VSub(at, VScale(u, ConfiguredLength))
                        ELSE VAdd(from, VScale(u, style.dimexo))),
             ToWcs(ucs, VAdd(at, VScale(u, style.dimexe))))

\* C11: an extension line that render has added starts, in fixed length
\* mode, dimexlen (by default dimexe) back from the point on the dimension
\* line, else dimexo away from the measurement point, and in both modes
\* ends dimexe beyond the dimension line
C11_ExtensionLineTrimming ==
    eng.built =>
        /\ PrimsBy({"ext1"}) # <<>> =>
               PrimsBy({"ext1"}) =
                   <<TrimmedExtensionLine("ext1", eng.ext1_line_start, eng.dim_line_start)>>
        /\ PrimsBy({"ext2"}) # <<>> =>
               PrimsBy({"ext2"}) =
                   <<TrimmedExtensionLine("ext2", eng.ext2_line_start, eng.dim_line_end)>>

----------------------------------------------------------------------------

\* the block references that render has added to the block
BlockReferences == SelectSeq(Block, LAMBDA q : q.kind = "INSERT")

\* C12: requires_extrusion is true exactly when the up-vector of the UCS is
\* not (0, 0, 1), and then the up-vector is the extrusion of the DIMENSION
\* entity and of every block reference in the block, for a standard arrow
\* as for a user defined block
C12_ExtrusionStamped ==
    eng.built =>
        /\ eng.requires_extrusion <=> ucs.uz # <<0, 0, 1>>
        /\ eng.requires_extrusion =>
               /\ dimension.extrusion = ucs.uz
               /\ \A i \in 1..Len(BlockReferences) : BlockReferences[i].extrusion = ucs.uz

----------------------------------------------------------------------------

\* an arrow name that is neither a standard arrow nor a block of the drawing
UndefinedArrow(name) ==
    name # NoName /\ name \notin ARROWS /\ name \notin drawing.user_blocks

\* render runs with a tick size that is not positive and an undefined arrow
HasUndefinedArrow ==
    /\ eng.built /\ eng.tick_size <= 0
    /\ UndefinedArrow(eng.arrow1_name) \/ UndefinedArrow(eng.arrow2_name)

\* nothing of the arrows step's failure is in the block or in the entity:
\* no block reference for an undefined name, no dimension line, no
\* defining-point marker, the stored defining points as render found them
NothingAfterUndefinedArrow ==
    /\ \A i \in 1..Len(BlockReferences) :
           /\ BlockReferences[i].by = "arrow1" => ~UndefinedArrow(eng.arrow1_name)
           /\ BlockReferences[i].by = "arrow2" => ~UndefinedArrow(eng.arrow2_name)
    /\ PrimsBy({"dim_line", "defpoint"}) = <<>>
    /\ dimension.defpoint = eng.dim_line_start
    /\ dimension.defpoint2 = eng.ext1_line_start
    /\ dimension.defpoint3 = eng.ext2_line_start

\* both extension line steps pass: each line is suppressed or its
\* measurement point is off the dimension line
ExtensionLinesPass ==
    /\ eng.suppress_ext1_line \/ eng.ext1_line_start # eng.dim_line_start
    /\ eng.suppress_ext2_line \/ eng.ext2_line_start # eng.dim_line_end

\* C13 as claimed: with a tick size that is not positive and an undefined
\* arrow name render always ends with DXFUndefinedBlockError, and nothing
\* of the failed step or after it is in the block or in the entity
C13_UndefinedBlockAlways ==
    Ended /\ HasUndefinedArrow =>
        outcome = "DXFUndefinedBlockError" /\ NothingAfterUndefinedArrow

\* C13 amended: with a tick size that is not positive and an undefined
\* arrow name render never returns; it ends with DXFUndefinedBlockError
\* when both extension line steps pass, else with the ZeroDivisionError
\* of the extension line step; in both cases no block reference for the
\* undefined name, no dimension line and no defining-point marker is in
\* the block and the stored defining points are not transformed
C13_UndefinedBlockRaised ==
    HasUndefinedArrow =>
        /\ pc \notin {"dim_line", "defpoints", "to_wcs"}
        /\ NothingAfterUndefinedArrow
        /\ Ended =>
               outcome = (IF ExtensionLinesPass THEN "DXFUndefinedBlockError"
                          ELSE "ZeroDivisionError")

\* the second arrow is undefined in a rotated UCS: render has ended with
\* the error after the block reference of the first arrow
C13_Witness ==
    /\ Ended /\ HasUndefinedArrow /\ outcome = "DXFUndefinedBlockError"
    /\ UndefinedArrow(eng.arrow2_name)
    /\ ucs.uz # <<0, 0, 1>>
    /\ Len(BlockReferences) = 1
    /\ PrimsBy({"ext1", "ext2"}) # <<>>

----------------------------------------------------------------------------

\* the number as format_text writes it without a template
FormattedNumber ==
    format_text(fmt.value, fmt.dimrnd, fmt.dimdec, fmt.dimzin, fmt.dimdsep, <<>>)

\* the template with its first "<>" replaced by the number
Wrapped(dimpost, number) ==
    LET k == FindPlaceholder(dimpost)
    IN  SubSeq(dimpost, 1, k - 1) \o number \o SubSeq(dimpost, k + 2, Len(dimpost))

\* C14: format_text raises DXFValueError for every dimpost that is not
\* empty and holds no "<>"; for a dimpost that holds "<>" it returns the
\* dimpost with the first "<>" replaced by the formatted number and
\* nothing else changed; 3.14159 with dimdec 2, dimdsep "," and dimpost
\* "<>mm" gives "3,14mm"
C14_TemplateWrapsNumber ==
    fmt.pc \in {"returned", "raised"} =>
        /\ fmt.dimpost # <<>> /\ FindPlaceholder(fmt.dimpost) = 0 =>
               fmt.pc = "raised" /\ fmt.raises = "DXFValueError"
        /\ FindPlaceholder(fmt.dimpost) # 0 =>
               fmt.pc = "returned" /\ fmt.text = Wrapped(fmt.dimpost, FormattedNumber)
        /\ /\ fmt.value = 314159 /\ fmt.dimrnd = 0 - 1 /\ fmt.dimdec = 2 /\ fmt.dimzin = 0
           /\ fmt.dimdsep = <<",">> /\ fmt.dimpost = <<"<", ">", "m", "m">>
           => fmt.text = <<"3", ",", "1", "4", "m", "m">>

----------------------------------------------------------------------------

\* add_tags has returned for tags that carry no handle
AddedWithoutHandle ==
    call.pc = "done" /\ call.op = "add_tags" /\ call.arg.handle = NoHandle

\* C15: get_unique_handle returns a handle that is not a key of the database
\* at the time of the call, the first value of the generator that is not in
\* use; add_tags on tags without a handle stores them under a new key,
\* leaves every entry the database had as it was, and the database has
\* exactly one entry more
C15_UniqueHandle ==
    /\ call.pc = "done" /\ call.op = "get_unique_handle" =>
           /\ call.result \notin DOMAIN call.before
           /\ call.result = Hex(handles - 1)
           /\ \A n \in call.seed..(handles - 2) : Hex(n) \in DOMAIN call.before
    /\ AddedWithoutHandle =>
           /\ call.result \notin DOMAIN call.before
           /\ DOMAIN database = DOMAIN call.before \cup {call.result}
           /\ Cardinality(DOMAIN database) = Cardinality(DOMAIN call.before) + 1
           /\ \A k \in DOMAIN call.before : database[k] = call.before[k]
           /\ database[call.result] = [call.arg EXCEPT !.handle = call.result]

\* the last of several methods was add_tags without a handle, and the
\* generator's next value was a key in use
C15_Witness ==
    /\ AddedWithoutHandle
    /\ ops = MaxOps
    /\ Hex(call.seed) \in DOMAIN call.before
    /\ call.result # Hex(call.seed)

\* the handles reached from link in db; a link to a missing handle or to a
\* handle in seen ends the sequence with NoLink
RECURSIVE LinkedFrom(_, _, _)
LinkedFrom(db, link, seen) ==
    IF link = NoLink THEN <<>>
    ELSE IF link \notin DOMAIN db \/ link \in seen THEN <<NoLink>>
    ELSE <<link>> \o LinkedFrom(db, db[link].link, seen \cup {link})

\* the source of duplicate_tags and its linked entities, as the database
\* was when the method was called
SourceChain ==
    <<call.arg>> \o LinkedFrom(call.before, call.before[call.arg].link, {call.arg})

\* the link chain of the source is finite and every linked handle present
ChainIsSound == \A i \in 1..Len(SourceChain) : SourceChain[i] # NoLink

\* a copy of tags under handle, linked to link
CopyOf(tags, handle, link) == [tags EXCEPT !.handle = handle, !.link = link]

\* C16: for a source whose link chain is finite with every linked handle
\* present, duplicate_tags does not raise, its loop makes one turn for each
\* linked entity and then returns; it has then added one entry for each
\* entity of the chain, under handles that were not keys before and differ
\* from each other; the copies are linked in the order of the source
\* chain, and every entry the database had is as it was
C16_DuplicateTags ==
    call.pc \in {"loop", "done", "raised"} /\ call.op = "duplicate_tags" /\ ChainIsSound =>
        LET n == Len(SourceChain)
        IN  /\ call.pc # "raised"
            /\ n <= MaxTurns
            /\ call.pc = "loop" =>
                   /\ Len(call.copies) <= n
                   /\ Len(call.copies) = n <=> call.source_link = NoLink
            /\ call.pc = "done" =>
                   /\ Len(call.copies) = n
                   /\ call.result = call.copies[1]
                   /\ DOMAIN database =
                          DOMAIN call.before \cup {call.copies[i] : i \in 1..n}
                   /\ Cardinality(DOMAIN database) = Cardinality(DOMAIN call.before) + n
                   /\ \A i \in 1..n :
                          /\ call.copies[i] \notin DOMAIN call.before
                          /\ database[call.copies[i]] =
                                 CopyOf(call.before[SourceChain[i]], call.copies[i],
                                        IF i < n THEN call.copies[i + 1] ELSE NoLink)
                   /\ \A k \in DOMAIN call.before : database[k] = call.before[k]

\* a source with two linked entities has been duplicated, and the
\* generator's next value was a key in use
C16_Witness ==
    /\ call.pc = "done" /\ call.op = "duplicate_tags"
    /\ ChainIsSound /\ Len(SourceChain) = 3 /\ Len(call.copies) = 3
    /\ Hex(call.seed) \in DOMAIN call.before

----------------------------------------------------------------------------

\* the dimension line is split around the text box
IsSplit == Cardinality(Crossings) = 2

\* a dimension line primitive that starts at the line's start
HasFirstSegment ==
    \E i \in 1..Len(PrimsBy({"dim_line"})) :
        PrimsBy({"dim_line"})[i].a = ToWcs(ucs, DimLine[1])

\* a dimension line primitive that ends at the line's end
HasSecondSegment ==
    \E i \in 1..Len(PrimsBy({"dim_line"})) :
        PrimsBy({"dim_line"})[i].b = ToWcs(ucs, DimLine[2])

\* C17: once add_dimension_line has returned, in the split case the first
\* segment is missing iff dimsd1 is set and the second iff dimsd2 is set;
\* in the no-split case the one line from start to end is there whatever
\* the flags are; so there is no dimension line primitive only when the
\* line is split and both flags are set
C17_SuppressionOnlyWhenSplit ==
    DimLineDone =>
        /\ IsSplit =>
               /\ HasFirstSegment <=> style.dimsd1 = 0
               /\ HasSecondSegment <=> style.dimsd2 = 0
               /\ Len(PrimsBy({"dim_line"})) =
                      (IF style.dimsd1 = 0 THEN 1 ELSE 0) + (IF style.dimsd2 = 0 THEN 1 ELSE 0)
        /\ ~IsSplit =>
               /\ Len(PrimsBy({"dim_line"})) = 1
               /\ HasFirstSegment /\ HasSecondSegment
        /\ PrimsBy({"dim_line"}) = <<>> <=>
               IsSplit /\ style.dimsd1 # 0 /\ style.dimsd2 # 0

\* both flags are set and the line is not split: render has returned and
\* the unbroken line is in the block
C17_Witness ==
    /\ Ended /\ outcome = "returned"
    /\ ~IsSplit /\ style.dimsd1 = 1 /\ style.dimsd2 = 1
    /\ Len(PrimsBy({"dim_line"})) = 1

====
